---- MODULE Spec2Model ----
(***************************************************************************)
(* Model of the drawing-region detector of the CAD overlay                 *)
(* (src/cad_overlay/detection.py, find_drawing_contour_box) and of the     *)
(* debug folder it writes to.                                              *)
(*                                                                         *)
(* An image is represented by what the OpenCV pipeline of lines 55-66      *)
(* extracts from it under the call's thresholds: its width, its height     *)
(* and the list of contours in extraction order.  A contour is            *)
(* represented by the three values the filter chain reads from it:         *)
(*   area2  - twice cv2.contourArea (the shoelace area of integer points   *)
(*            is a multiple of 0.5, so area2 is an integer),               *)
(*   nverts - len(cv2.approxPolyDP(contour, 0.02 * peri, True)),           *)
(*   rect   - cv2.boundingRect(contour) as the tuple <<x, y, w, h>>.       *)
(***************************************************************************)
EXTENDS Integers, Sequences, FiniteSets, TLC

VARIABLES
    image,         \* [width, height, contours]: the caller's image
    dir_exists,    \* os.path.exists("screenshot_debug")
    files,         \* files of the debug folder: set of [name, call]
    calls,         \* number of detection calls made so far
    debug_folder,  \* debug_folder argument of the latest call
    best_box,      \* value returned by the latest call
    found_box,     \* found_box at the end of the latest call
    examined,      \* loop iterations entered by the latest call
    written,       \* cv2.imwrite calls of the latest call, in order
    returns,       \* history of calls: [debug, box, written, raised]
    raised,        \* the latest call ended with an exception
    drawn,         \* image buffers the latest call drew on
    cand,          \* candidate bounding rect <<w, h>> given to the aspect rule
    aspect_result, \* outcome of the aspect rule on cand
    is_refreshing, \* OverlayApplication.is_refreshing
    rect_opacity,  \* rect_overlay.windowOpacity(), in percent
    panel_opacity, \* control_panel.windowOpacity(), in percent
    pending,       \* QTimer.singleShot callbacks not yet run
    overlay_rect,  \* rect_overlay's (x, y, w, h)
    notified,      \* the overlay told the user that detection is unreliable
    app_state,     \* "running", "error" after an exception left a slot,
                   \* "quit" after exit_app
    last_trigger,  \* latest trigger_refresh call: [src, accepted]
    call_srcs,     \* for each detection call, the trigger that caused it
    events,        \* what the latest refresh cycle has done so far, in order
    main_pc,       \* position of run_cad_overlay.main
    main_debug,    \* main's local debug_folder
    initial_rect,  \* main's local initial_rect
    main_events    \* what main's three try blocks did

detVars == <<image, dir_exists, files, calls, debug_folder, best_box,
             found_box, examined, written, returns, raised, drawn>>

ruleVars == <<cand, aspect_result>>

uiVars == <<is_refreshing, rect_opacity, panel_opacity, pending, overlay_rect,
            notified, app_state, last_trigger, call_srcs, events>>

mainVars == <<main_pc, main_debug, initial_rect, main_events>>

vars == <<detVars, ruleVars, uiVars, mainVars>>

(***************************************************************************)
(* Bounds of the model and constants of the program.                       *)
(***************************************************************************)
ImgW == 40
ImgH == 30
MaxContours == 2
MaxCalls == 2
MaxSide == 10

margin == 5

None == "None"
DebugDir == "screenshot_debug"

Max(a, b) == IF a >= b THEN a ELSE b

(***************************************************************************)
(* Images.                                                                 *)
(***************************************************************************)
Contour(a, n, r) == [area2 |-> a, nverts |-> n, rect |-> r]

\* Smallest doubled area that is not below the 10% floor.
MinArea2(W, H) == (W * H + 4) \div 5

\* A rectangular contour whose bounding rect is r encloses (w-1)*(h-1).
FullArea2(r) == 2 * Max(r[3] - 1, 0) * Max(r[4] - 1, 0)

\* What cv2.findContours, cv2.contourArea and cv2.boundingRect can yield on
\* a W x H image: points lie on pixels of the image, the bounding rect is
\* max - min + 1 in each direction, the enclosed area is at most that of the
\* polygon through the rect's corner pixels, and an approximation has no
\* more vertices than the rect's border has pixels.
Realistic(c, W, H) ==
    /\ c.rect[1] >= 0 /\ c.rect[2] >= 0
    /\ c.rect[3] >= 1 /\ c.rect[4] >= 1
    /\ c.rect[1] + c.rect[3] <= W
    /\ c.rect[2] + c.rect[4] <= H
    /\ c.area2 >= 0 /\ c.area2 <= FullArea2(c.rect)
    /\ c.nverts >= 1
    /\ c.nverts <= Max(1, 2 * (c.rect[3] - 1) + 2 * (c.rect[4] - 1))

\* The two rects that lie just inside the margin on every side.
BaseRects(W, H) ==
    { <<margin + 1, margin + 1, W - 2 * margin - 2, H - 2 * margin - 2>>,
      <<margin + 2, margin + 2, W - 2 * margin - 5, H - 2 * margin - 4>> }

\* Rects on or next to the boundary of one rule, the rest as the first
\* base: the four margins, the aspect ratios 2.0 and 0.5 with one value
\* just inside each, an aspect ratio outside, and the frame of the image.
EdgeRects(W, H) ==
    LET w0 == W - 2 * margin - 2
        h0 == H - 2 * margin - 2
    IN  { <<margin, margin + 1, w0, h0>>,
          <<margin + 1, margin, w0, h0>>,
          <<margin + 1, margin + 1, w0 + 1, h0>>,
          <<margin + 1, margin + 1, w0, h0 + 1>>,
          <<margin + 1, margin + 1, 2 * (w0 \div 2), w0 \div 2>>,
          <<margin + 1, margin + 1, 2 * (w0 \div 2), (w0 \div 2) + 1>>,
          <<margin + 1, margin + 1, h0 \div 2, 2 * (h0 \div 2)>>,
          <<margin + 1, margin + 1, (h0 \div 2) + 1, 2 * (h0 \div 2)>>,
          <<margin + 1, margin + 1, w0, (w0 \div 2) - 4>>,
          <<0, 0, W, H>> }

Palette(W, H) ==
    { c \in
        { Contour(a, 4, r) :
            a \in { MinArea2(W, H) - 2, MinArea2(W, H) - 1,
                    MinArea2(W, H), MinArea2(W, H) + 7 },
            r \in BaseRects(W, H) }
        \cup { Contour(MinArea2(W, H) + 3, n, r) :
                 n \in {3, 5}, r \in BaseRects(W, H) }
        \cup { Contour(FullArea2(r), 4, r) : r \in EdgeRects(W, H) }
        \cup { Contour(0, 1, <<0, 0, 1, 1>>) } :
      Realistic(c, W, H) }

SeqsUpTo(S, n) == UNION { [1..k -> S] : k \in 0..n }

Dims == { <<1, 1>>, <<ImgW, ImgH>> }

Images ==
    UNION { { [width |-> d[1], height |-> d[2], contours |-> cs] :
                cs \in SeqsUpTo(Palette(d[1], d[2]), MaxContours) } :
            d \in Dims }

(***************************************************************************)
(* find_drawing_contour_box: the filter chain (detection.py 75-123).       *)
(***************************************************************************)

\* Line 86, area < min_area with min_area = width * height * 0.1 (line 78).
\* area = area2 / 2 is a multiple of 0.5 and width * height * 0.1 is the
\* double nearest to the exact product with the double 0.1 =
\* 0.1 * (1 + 2^-54): it equals width * height / 10 when that is a multiple
\* of 0.5 and is otherwise at least 0.1 away from every multiple of 0.5, so
\* the comparison of doubles agrees with the comparison of integers.
AreaBelowMinOff(c, width, height) == 5 * c.area2 <= width * height
AreaBelowMin(c, width, height) == 5 * c.area2 < width * height

\* Line 94.
IsQuadLoose(c) == c.nverts >= 4
IsQuad(c) == c.nverts = 4

\* Line 98: w / float(h) if h > 0 else 0, as the fraction num / den; a
\* division by zero raises ZeroDivisionError.
Divide(w, h) ==
    IF h = 0 THEN [raised |-> TRUE, num |-> 0, den |-> 1]
    ELSE [raised |-> FALSE, num |-> w, den |-> h]
AspectRatioUnguarded(w, h) == Divide(w, h)
AspectRatio(w, h) ==
    IF h > 0 THEN Divide(w, h) ELSE [raised |-> FALSE, num |-> 0, den |-> 1]

\* Line 99: 0.5 < aspect_ratio < 2.0 on the fraction q = <<num, den>> with
\* den > 0.  The double w / float(h) is 0.5 (or 2.0) only when the exact
\* quotient is: a quotient of pixel counts that differs from 0.5 differs by
\* at least 1 / (2 * h).
AspectInRangeClosed(q) == q.den <= 2 * q.num /\ q.num <= 2 * q.den
AspectInRange(q) == q.den < 2 * q.num /\ q.num < 2 * q.den

\* Line 102.
MarginOkImageBounds(r, width, height) ==
    /\ r[1] >= 0
    /\ r[2] >= 0
    /\ r[1] + r[3] <= width
    /\ r[2] + r[4] <= height
MarginOkClosed(r, width, height) ==
    /\ r[1] >= margin
    /\ r[2] >= margin
    /\ r[1] + r[3] <= width - margin
    /\ r[2] + r[4] <= height - margin
MarginOk(r, width, height) ==
    /\ r[1] > margin
    /\ r[2] > margin
    /\ r[1] + r[3] < width - margin
    /\ r[2] + r[4] < height - margin

\* Line 82: sorted(contours, key=cv2.contourArea, reverse=True).  Python's
\* sort is stable, also with reverse=True: contours of equal area keep
\* their extraction order.
RECURSIVE InsertDesc(_, _)
InsertDesc(c, s) ==
    IF s = <<>> THEN <<c>>
    ELSE IF c.area2 >= s[1].area2 THEN <<c>> \o s
    ELSE <<s[1]>> \o InsertDesc(c, Tail(s))

RECURSIVE SortDesc(_)
SortDescIdentity(cs) == cs
SortDesc(cs) ==
    IF cs = <<>> THEN <<>> ELSE InsertDesc(cs[1], SortDesc(Tail(cs)))

\* Lines 94-102 on one contour: the three rules after the area floor.
PassesRules(c, width, height) ==
    /\ IsQuad(c)
    /\ LET q == AspectRatio(c.rect[3], c.rect[4])
       IN  ~q.raised /\ AspectInRange(q)
    /\ MarginOk(c.rect, width, height)

Outcome(box, found, n) ==
    [best_box |-> box, found_box |-> found, examined |-> n]

\* Lines 84-114, the loop from position i of sorted_contours on, with best
\* the value of best_box so far and found that of found_box.  debug is the
\* truth value of debug_folder: the selected contour's overlay is saved
\* (lines 108-113) before the break of line 114 either way.
RECURSIVE ScanBreakInDebug(_, _, _, _, _, _, _)
ScanBreakInDebug(sorted, i, width, height, debug, best, found) ==
    IF i > Len(sorted) THEN Outcome(best, found, i - 1)
    ELSE IF AreaBelowMin(sorted[i], width, height)
         THEN Outcome(best, found, i)
    ELSE IF PassesRules(sorted[i], width, height)
         THEN IF debug THEN Outcome(sorted[i].rect, TRUE, i)
              ELSE ScanBreakInDebug(sorted, i + 1, width, height, debug,
                                    sorted[i].rect, TRUE)
    ELSE ScanBreakInDebug(sorted, i + 1, width, height, debug, best, found)

RECURSIVE ScanNoFloorBreak(_, _, _, _, _, _, _)
ScanNoFloorBreak(sorted, i, width, height, debug, best, found) ==
    IF i > Len(sorted) THEN Outcome(best, found, i - 1)
    ELSE IF PassesRules(sorted[i], width, height)
         THEN Outcome(sorted[i].rect, TRUE, i)
    ELSE ScanNoFloorBreak(sorted, i + 1, width, height, debug, best, found)

RECURSIVE Scan(_, _, _, _, _, _, _)
Scan(sorted, i, width, height, debug, best, found) ==
    IF i > Len(sorted) THEN Outcome(best, found, i - 1)
    ELSE IF AreaBelowMin(sorted[i], width, height)
         THEN Outcome(best, found, i)
    ELSE IF PassesRules(sorted[i], width, height)
         THEN Outcome(sorted[i].rect, TRUE, i)
    ELSE Scan(sorted, i + 1, width, height, debug, best, found)

\* Lines 75-114: the defaults, then the loop over the sorted contours when
\* there are any.
FullImageBoxSwapped(width, height) == <<0, 0, height, width>>
FullImageBox(width, height) == <<0, 0, width, height>>

\* max_area (line 76) kept from the call before: nothing exceeds it again.
FilterContoursStaleMaxArea(img, debug) ==
    IF img.contours # <<>> /\ ~found_box
    THEN Scan(SortDesc(img.contours), 1, img.width, img.height, debug,
              FullImageBox(img.width, img.height), FALSE)
    ELSE Outcome(FullImageBox(img.width, img.height), FALSE, 0)
FilterContoursSkipFirst(img, debug) ==
    IF img.contours # <<>>
    THEN Scan(SortDesc(img.contours), 2, img.width, img.height, debug,
              FullImageBox(img.width, img.height), FALSE)
    ELSE Outcome(FullImageBox(img.width, img.height), FALSE, 0)
FilterContours(img, debug) ==
    IF img.contours # <<>>
    THEN Scan(SortDesc(img.contours), 1, img.width, img.height, debug,
              FullImageBox(img.width, img.height), FALSE)
    ELSE Outcome(FullImageBox(img.width, img.height), FALSE, 0)

(***************************************************************************)
(* find_drawing_contour_box: the debug folder (detection.py 30-72,         *)
(* 107-113).                                                               *)
(***************************************************************************)
DebugNames ==
    << "debug_1_gray", "debug_2_blurred", "debug_3_canny_edges",
       "debug_4_all_contours", "debug_5_best_contour_box" >>

File(n, k) == [name |-> n, call |-> k]

\* Lines 32-34: shutil.rmtree when the folder exists, then os.makedirs.
ClearFolderKeep(exists, fs) == fs
ClearFolder(exists, fs) == IF exists THEN {} ELSE fs

\* Line 48: cv2.imwrite(path, img_to_save) replaces a file of that name.
ImWrite(fs, n, k) == { f \in fs : f.name # n } \cup { File(n, k) }

RECURSIVE WriteAll(_, _, _)
WriteAll(fs, names, k) ==
    IF names = <<>> THEN fs
    ELSE WriteAll(ImWrite(fs, Head(names), k), Tail(names), k)

\* The save_debug_step calls of one call with a debug folder, in program
\* order: lines 56, 59, 63 and 72, then line 113 for the selected contour.
DebugStepsAlwaysFive(found) == SubSeq(DebugNames, 1, 5)
DebugSteps(found) ==
    SubSeq(DebugNames, 1, 4)
        \o (IF found THEN <<DebugNames[5]>> ELSE <<>>)

(***************************************************************************)
(* Image buffers (detection.py 35, 70-71, 110-112).  A name stands for the *)
(* buffer it refers to: .copy() makes a buffer of its own, and the         *)
(* overlays are drawn with cv2.drawContours and cv2.rectangle in place.    *)
(***************************************************************************)
ImageCopyAlias(buf, name) == buf
ImageCopy(buf, name) == name

DrawnBuffers(debug, found) ==
    IF ~debug THEN {}
    ELSE LET persistent_debug_img == ImageCopy("image", "persistent_debug_img")
         IN  { ImageCopy(persistent_debug_img, "img_with_contours") }
             \cup (IF found
                   THEN { ImageCopy(persistent_debug_img,
                                    "img_with_best_contour") }
                   ELSE {})

(***************************************************************************)
(* One call of find_drawing_contour_box(img, debug_folder=d).  fault is    *)
(* what the file system does during the call: "none", or "rmtree" /        *)
(* "makedirs" / "imwrite" when that operation fails on the debug folder.   *)
(* shutil.rmtree and os.makedirs (lines 32-34) run outside any try block,  *)
(* cv2.imwrite (line 48) inside one.                                       *)
(***************************************************************************)
Faults == {"none", "rmtree", "makedirs", "imwrite"}

\* Lines 30-34: the call ends here with the OSError of rmtree or makedirs.
SetupRaises(debug, exists, fault) ==
    debug /\ (fault = "makedirs" \/ (fault = "rmtree" /\ exists))

Detect(img, d, fault) ==
    LET debug == d # None
        out == FilterContours(img, debug)
        steps == IF debug THEN DebugSteps(out.found_box) ELSE <<>>
    IN  /\ debug_folder' = d
        /\ calls' = calls + 1
        /\ IF SetupRaises(debug, dir_exists, fault)
           THEN /\ raised' = TRUE
                /\ best_box' = <<>>
                /\ found_box' = FALSE
                /\ examined' = 0
                /\ written' = <<>>
                /\ drawn' = {}
                /\ dir_exists' = (dir_exists /\ fault = "rmtree")
                /\ files' = IF fault = "rmtree" THEN files ELSE {}
                /\ returns' = Append(returns,
                                     [debug |-> debug, box |-> <<>>,
                                      written |-> <<>>, raised |-> TRUE])
           ELSE /\ raised' = FALSE
                /\ best_box' = out.best_box
                /\ found_box' = out.found_box
                /\ examined' = out.examined
                /\ written' = steps
                /\ drawn' = DrawnBuffers(debug, out.found_box)
                /\ dir_exists' = (dir_exists \/ debug)
                /\ files' = IF ~debug THEN files
                            ELSE IF fault = "imwrite"
                                 THEN ClearFolder(dir_exists, files)
                            ELSE WriteAll(ClearFolder(dir_exists, files),
                                          steps, calls + 1)
                /\ returns' = Append(returns,
                                     [debug |-> debug, box |-> out.best_box,
                                      written |-> steps, raised |-> FALSE])

find_drawing_contour_box(d) ==
    /\ calls < MaxCalls
    /\ Detect(image, d, "none")
    /\ UNCHANGED <<image, ruleVars, uiVars, mainVars>>

DetectWithDebug == find_drawing_contour_box(DebugDir)
DetectWithoutDebug == find_drawing_contour_box(None)

\* The debug folder before the program's first call: absent, or left by an
\* earlier run with a selected contour's overlay and a reference screenshot.
StaleFiles ==
    { File(DebugNames[i], 0) : i \in 1..5 } \cup { File("initial_screenshot", 0) }

\* No call made yet.
DetIdle ==
    /\ calls = 0
    /\ debug_folder = None
    /\ best_box = <<>>
    /\ found_box = FALSE
    /\ examined = 0
    /\ written = <<>>
    /\ returns = <<>>
    /\ raised = FALSE
    /\ drawn = {}

RuleIdle ==
    /\ cand = <<0, 0>>
    /\ aspect_result = "none"

\* No overlay application constructed.
UIIdle ==
    /\ is_refreshing = FALSE
    /\ rect_opacity = 100
    /\ panel_opacity = 100
    /\ pending = <<>>
    /\ overlay_rect = <<>>
    /\ notified = FALSE
    /\ app_state = "none"
    /\ last_trigger = [src |-> "none", accepted |-> FALSE]
    /\ call_srcs = <<>>
    /\ events = <<>>

\* main not run.
MainIdle ==
    /\ main_pc = "none"
    /\ main_debug = None
    /\ initial_rect = <<>>
    /\ main_events = [capture |-> "none", setup |-> "none", detect |-> "none"]

Init ==
    /\ image \in Images
    /\ \/ dir_exists = FALSE /\ files = {}
       \/ dir_exists = TRUE /\ files = StaleFiles
    /\ DetIdle
    /\ RuleIdle
    /\ UIIdle
    /\ MainIdle

Next == DetectWithDebug \/ DetectWithoutDebug

Spec == Init /\ [][Next]_vars

(***************************************************************************)
(* The same calls on a debug folder whose operations may fail.             *)
(***************************************************************************)
DetectOnFaultyFolder ==
    /\ calls < MaxCalls
    /\ \E d \in {None, DebugDir} : \E fault \in Faults :
          Detect(image, d, fault)
    /\ UNCHANGED <<image, ruleVars, uiVars, mainVars>>

NextFault == DetectOnFaultyFolder

SpecFault == Init /\ [][NextFault]_vars

(***************************************************************************)
(* The aspect rule of lines 98-99 as a function of a candidate's bounding  *)
(* rect, over every <<w, h>> of a small range, degenerate rects included.  *)
(***************************************************************************)
AspectRule(w, h) ==
    LET q == AspectRatio(w, h)
    IN  IF q.raised THEN "raise"
        ELSE IF AspectInRange(q) THEN "pass" ELSE "reject"

ApplyAspectRule ==
    /\ aspect_result = "none"
    /\ aspect_result' = AspectRule(cand[1], cand[2])
    /\ UNCHANGED <<cand, detVars, uiVars, mainVars>>

InitRule ==
    /\ cand \in (0..MaxSide) \X (0..MaxSide)
    /\ aspect_result = "none"
    /\ image = [width |-> 1, height |-> 1, contours |-> <<>>]
    /\ dir_exists = FALSE
    /\ files = {}
    /\ DetIdle
    /\ UIIdle
    /\ MainIdle

NextRule == ApplyAspectRule

SpecRule == InitRule /\ [][NextRule]_vars

(***************************************************************************)
(* The overlay application (src/cad_overlay/ui.py, OverlayApplication).    *)
(* Qt runs every slot and every timer callback on the GUI thread, one at a *)
(* time, so each handler is one step.  Opacities are in percent.           *)
(***************************************************************************)
Opaque == 100
Transparent == 0

\* What capture_screenshot can return during a refresh: a blank screen, a
\* screen with one drawing frame that passes every rule, and a screen whose
\* only contour is the screen's own border.
Screens ==
    { img \in Images :
        /\ img.width = ImgW /\ img.height = ImgH
        /\ Len(img.contours) <= 1
        /\ \A i \in 1..Len(img.contours) :
              \/ /\ img.contours[i].area2 = MinArea2(ImgW, ImgH) + 7
                 /\ img.contours[i].rect =
                       <<margin + 1, margin + 1,
                         ImgW - 2 * margin - 2, ImgH - 2 * margin - 2>>
              \/ img.contours[i].rect = <<0, 0, ImgW, ImgH>> }

\* Line 248: a trigger is dropped while a refresh is in flight.
RefreshGuardOff(flag) == FALSE

RefreshGuard(flag) == flag

\* Line 257: the callback passes the trigger's enable_debug on.
ScheduledDebugDefault(enable_debug) == FALSE

ScheduledDebug(enable_debug) == enable_debug

\* Line 232.
DebugFolderPath(enable_debug) == IF enable_debug THEN DebugDir ELSE None

\* Lines 240-242, FloatingRectangle.update_rect (39-43): the rectangle and
\* its info text are set from new_rect alone; nothing tells the user whether
\* new_rect is a detected box or the fallback.
UpdateRectNotice(new_rect, img) == FALSE

\* Line 254: the control panel is made transparent with the rectangle.
PanelOpacityInFlightKept(current) == current

PanelOpacityInFlight(current) == Transparent

\* The statements of perform_refresh in the order of lines 229, 233,
\* 236-237, 240 and 244.
RefreshSteps ==
    <<"capture", "detect", "restore_opacity", "update_rect", "clear_flag">>

\* trigger_refresh(enable_debug), lines 246-257.  src names the caller.
trigger_refresh(src, enable_debug) ==
    /\ app_state = "running"
    /\ calls < MaxCalls
    /\ IF RefreshGuard(is_refreshing)
       THEN /\ last_trigger' = [src |-> src, accepted |-> FALSE]
            /\ UNCHANGED <<is_refreshing, rect_opacity, panel_opacity, pending,
                           events>>
       ELSE /\ last_trigger' = [src |-> src, accepted |-> TRUE]
            /\ is_refreshing' = TRUE
            /\ rect_opacity' = Transparent
            /\ panel_opacity' = PanelOpacityInFlight(panel_opacity)
            /\ events' = <<"set_transparent">>
            /\ pending' = Append(pending,
                                 [enable_debug |-> ScheduledDebug(enable_debug),
                                  src |-> src])
    /\ UNCHANGED <<detVars, ruleVars, mainVars, overlay_rect, notified,
                   app_state, call_srcs>>

\* Line 223: update_timer.timeout.
TimerTick == trigger_refresh("timer", FALSE)

\* Line 220: control_panel.refreshRequested.
RefreshClicked == trigger_refresh("button", TRUE)

\* What follows an exception that leaves a slot.  PyQt5 from 5.5 on aborts
\* the process unless the program installed a sys.excepthook (this one does
\* not); earlier versions print the traceback and the event loop goes on.
SlotErrorOutcomes == {"error", "running"}

\* perform_refresh(enable_debug), lines 225-244, run by the single-shot
\* timer.  capture_screenshot or find_drawing_contour_box may raise; the
\* exception leaves the slot and the lines after it are not run.
perform_refresh ==
    /\ app_state = "running"
    /\ pending # <<>>
    /\ pending' = Tail(pending)
    /\ \/ \* line 229 raises
          /\ app_state' \in SlotErrorOutcomes
          /\ events' = events \o SubSeq(RefreshSteps, 1, 1)
          /\ UNCHANGED <<detVars, is_refreshing, rect_opacity, panel_opacity,
                         overlay_rect, notified, call_srcs>>
       \/ \E img \in Screens : \E fault \in Faults :
             LET d == DebugFolderPath(Head(pending).enable_debug) IN
             /\ image' = img
             /\ Detect(img, d, fault)
             /\ call_srcs' = Append(call_srcs, Head(pending).src)
             /\ IF SetupRaises(d # None, dir_exists, fault)
                THEN /\ app_state' \in SlotErrorOutcomes
                     /\ events' = events \o SubSeq(RefreshSteps, 1, 2)
                     /\ UNCHANGED <<is_refreshing, rect_opacity, panel_opacity,
                                    overlay_rect, notified>>
                ELSE /\ rect_opacity' = Opaque
                     /\ panel_opacity' = Opaque
                     /\ overlay_rect' = best_box'
                     /\ notified' = UpdateRectNotice(best_box', img)
                     /\ is_refreshing' = FALSE
                     /\ events' = events \o RefreshSteps
                     /\ UNCHANGED app_state
    /\ UNCHANGED <<ruleVars, mainVars, last_trigger>>

\* exit_app, lines 268-281: the timer is stopped and the event loop quits.
exit_app ==
    /\ app_state = "running"
    /\ app_state' = "quit"
    /\ UNCHANGED <<detVars, ruleVars, mainVars, is_refreshing, rect_opacity,
                   panel_opacity, pending, overlay_rect, notified,
                   last_trigger, call_srcs, events>>

\* OverlayApplication.__init__ (203-223) and run (259-266), started on the
\* rectangle of a first screenshot.
InitUI ==
    /\ image \in Screens
    /\ \/ dir_exists = FALSE /\ files = {}
       \/ dir_exists = TRUE /\ files = StaleFiles
    /\ DetIdle
    /\ RuleIdle
    /\ MainIdle
    /\ is_refreshing = FALSE
    /\ rect_opacity = Opaque
    /\ panel_opacity = Opaque
    /\ pending = <<>>
    /\ overlay_rect \in { FilterContours(image, FALSE).best_box,
                          FullImageBox(image.width, image.height) }
    /\ notified = FALSE
    /\ app_state = "running"
    /\ last_trigger = [src |-> "none", accepted |-> FALSE]
    /\ call_srcs = <<>>
    /\ events = <<>>

NextUI == TimerTick \/ RefreshClicked \/ perform_refresh \/ exit_app

SpecUI == InitUI /\ [][NextUI]_vars

\* The event loop runs a single-shot callback once its 100 ms have passed
\* (line 257), for as long as the application runs.
SpecUIFair == SpecUI /\ WF_vars(perform_refresh)

(***************************************************************************)
(* The entry point (src/run_cad_overlay.py, main): capture, debug-folder   *)
(* setup, initial detection and start of the overlay, each in a try block  *)
(* of its own.                                                             *)
(***************************************************************************)
\* Line 38: the except branch of the folder setup drops the folder.
DebugAfterSetupErrorKept(folder) == folder

DebugAfterSetupError(folder) == None

\* Lines 48-49: the except branch of the initial detection.
MainFallbackRect(img) == <<0, 0, img.width, img.height>>

\* What capture_screenshot can return to main: the full-size screens with at
\* most one contour.
FirstScreens ==
    { img \in Images : img.width = ImgW /\ img.height = ImgH
                       /\ Len(img.contours) <= 1 }

\* Lines 16-22.
MainCapture ==
    /\ main_pc = "start"
    /\ \/ /\ main_events' = [main_events EXCEPT !.capture = "failed"]
          /\ main_pc' = "returned"
          /\ UNCHANGED image
       \/ /\ image' \in FirstScreens
          /\ main_events' = [main_events EXCEPT !.capture = "ok"]
          /\ main_pc' = "captured"
    /\ UNCHANGED <<dir_exists, files, calls, debug_folder, best_box, found_box,
                   examined, written, returns, raised, drawn,
                   ruleVars, uiVars, main_debug, initial_rect>>

\* Lines 24-38.  cv2.imwrite reports a failed write either by returning
\* False, which main does not look at, or by raising cv2.error.
MainSetupFolder ==
    /\ main_pc = "captured"
    /\ main_pc' = "folder_done"
    /\ \E fault \in Faults : \E imwrite_raises \in BOOLEAN :
          IF fault = "rmtree" /\ dir_exists
          THEN /\ UNCHANGED <<dir_exists, files>>
               /\ main_debug' = DebugAfterSetupError(DebugDir)
               /\ main_events' = [main_events EXCEPT !.setup = "failed"]
          ELSE IF fault = "makedirs"
          THEN /\ dir_exists' = FALSE
               /\ files' = {}
               /\ main_debug' = DebugAfterSetupError(DebugDir)
               /\ main_events' = [main_events EXCEPT !.setup = "failed"]
          ELSE IF fault = "imwrite"
          THEN /\ dir_exists' = TRUE
               /\ files' = {}
               /\ IF imwrite_raises
                  THEN /\ main_debug' = DebugAfterSetupError(DebugDir)
                       /\ main_events' = [main_events EXCEPT !.setup = "failed"]
                  ELSE /\ main_debug' = DebugDir
                       /\ main_events' = [main_events EXCEPT
                                             !.setup = "ok_not_written"]
          ELSE /\ dir_exists' = TRUE
               /\ files' = { File("initial_screenshot", calls) }
               /\ main_debug' = DebugDir
               /\ main_events' = [main_events EXCEPT !.setup = "ok"]
    /\ UNCHANGED <<image, calls, debug_folder, best_box, found_box, examined,
                   written, returns, raised, drawn,
                   ruleVars, uiVars, initial_rect>>

\* Lines 40-50.
MainDetect ==
    /\ main_pc = "folder_done"
    /\ main_pc' = "detected"
    /\ \E fault \in Faults :
          /\ Detect(image, main_debug, fault)
          /\ IF SetupRaises(main_debug # None, dir_exists, fault)
             THEN /\ initial_rect' = MainFallbackRect(image)
                  /\ main_events' = [main_events EXCEPT !.detect = "failed"]
             ELSE /\ initial_rect' = best_box'
                  /\ main_events' = [main_events EXCEPT !.detect = "ok"]
    /\ UNCHANGED <<image, ruleVars, uiVars, main_debug>>

\* Lines 52-60 and OverlayApplication.__init__ (ui.py 203-223).
MainStartOverlay ==
    /\ main_pc = "detected"
    /\ main_pc' = "overlay"
    /\ overlay_rect' = initial_rect
    /\ app_state' = "running"
    /\ UNCHANGED <<detVars, ruleVars, is_refreshing, rect_opacity,
                   panel_opacity, pending, notified, last_trigger, call_srcs,
                   events,
                   main_debug, initial_rect, main_events>>

InitMain ==
    /\ image = [width |-> 1, height |-> 1, contours |-> <<>>]
    /\ \/ dir_exists = FALSE /\ files = {}
       \/ dir_exists = TRUE /\ files = StaleFiles
    /\ DetIdle
    /\ RuleIdle
    /\ UIIdle
    /\ main_pc = "start"
    /\ main_debug = None
    /\ initial_rect = <<>>
    /\ main_events = [capture |-> "none", setup |-> "none", detect |-> "none"]

NextMain == MainCapture \/ MainSetupFolder \/ MainDetect \/ MainStartOverlay

SpecMain == InitMain /\ [][NextMain]_vars

(***************************************************************************)
(* The properties, stated on the image given to the detector and on what   *)
(* the call returned and wrote.                                            *)
(***************************************************************************)
Called == calls > 0
Contours == image.contours
Idx == DOMAIN image.contours
FullBox == <<0, 0, image.width, image.height>>

\* The four rules in the words of the specification, on contour k.
QArea(k) == 10 * Contours[k].area2 >= 2 * image.width * image.height
QQuad(k) == Contours[k].nverts = 4
QAspect(k) ==
    LET w == Contours[k].rect[3]
        h == Contours[k].rect[4]
    IN  h # 0 /\ 2 * w > h /\ w < 2 * h
QMargin(k) ==
    LET r == Contours[k].rect
    IN  /\ r[1] > 5 /\ r[2] > 5
        /\ r[1] + r[3] < image.width - 5
        /\ r[2] + r[4] < image.height - 5
Qualifies(k) == QArea(k) /\ QQuad(k) /\ QAspect(k) /\ QMargin(k)

\* Descending order of area, contours of equal area in extraction order.
Before(j, k) ==
    \/ Contours[j].area2 > Contours[k].area2
    \/ Contours[j].area2 = Contours[k].area2 /\ j < k
RankOf(k) == Cardinality({ j \in Idx : Before(j, k) }) + 1

\* C1: after a call on a non-empty image, the returned box (x, y, w, h) has
\* w > 0, h > 0, x >= 0, y >= 0, x + w <= W and y + h <= H, whether a
\* contour was selected or the fallback was taken.
C1_BoxInsideImage ==
    Called =>
        /\ Len(best_box) = 4
        /\ best_box[3] > 0 /\ best_box[4] > 0
        /\ best_box[1] >= 0 /\ best_box[2] >= 0
        /\ best_box[1] + best_box[3] <= image.width
        /\ best_box[2] + best_box[4] <= image.height

C1_Witness ==
    /\ Called /\ found_box /\ best_box # FullBox
    /\ image.width # image.height

\* C2: if no contour passes the whole rejection chain (the contour set may
\* be empty), the call returns exactly (0, 0, W, H).
C2_FallbackIsFullImage ==
    (Called /\ \A k \in Idx : ~Qualifies(k)) => best_box = FullBox

C2_Witness ==
    /\ Called /\ best_box = FullBox
    /\ image.width > 1
    /\ \E k \in Idx : QQuad(k) /\ QAspect(k) /\ QMargin(k) /\ ~QArea(k)

\* C3: the returned box is the bounding rect of the first contour, in
\* descending order of area, that passes all four rules: every other
\* passing contour ranks after it, and the scan entered exactly as many
\* iterations as the winner's rank, so none after it was examined.
C3_FirstQualifyingWins ==
    (Called /\ \E k \in Idx : Qualifies(k)) =>
        \E k \in Idx :
            /\ Qualifies(k)
            /\ \A j \in Idx : Qualifies(j) /\ j # k => Before(k, j)
            /\ found_box
            /\ best_box = Contours[k].rect
            /\ examined = RankOf(k)

C3_Witness ==
    /\ Called /\ Len(Contours) = 2
    /\ Qualifies(1) /\ Qualifies(2)
    /\ Contours[1].area2 < Contours[2].area2
    /\ Contours[1].rect # Contours[2].rect
    /\ best_box = Contours[2].rect
    /\ examined = 1

\* C4 as stated: a single contour with 4 vertices, at least 10% of the
\* image area, aspect ratio strictly inside (0.5, 2.0) and a bounding rect
\* at least 5 pixels from every image edge is returned, not the fallback.
AtLeast5FromEdges(k) ==
    LET r == Contours[k].rect
    IN  /\ r[1] >= 5 /\ r[2] >= 5
        /\ r[1] + r[3] <= image.width - 5
        /\ r[2] + r[4] <= image.height - 5

C4_AsStated ==
    (/\ Called /\ Len(Contours) = 1
     /\ QQuad(1) /\ QArea(1) /\ QAspect(1) /\ AtLeast5FromEdges(1))
        => (best_box = Contours[1].rect /\ best_box # FullBox)

\* C4, amended: a single contour with 4 vertices, at least 10% of the image
\* area, aspect ratio strictly inside (0.5, 2.0) and a bounding rect more
\* than 5 pixels from every image edge (x > 5, y > 5, x + w < W - 5,
\* y + h < H - 5) is returned, not the fallback.
C4_SingleQualifyingReturned ==
    (/\ Called /\ Len(Contours) = 1
     /\ QQuad(1) /\ QArea(1) /\ QAspect(1) /\ QMargin(1))
        => (best_box = Contours[1].rect /\ best_box # FullBox)

C4_Witness ==
    /\ Called /\ Len(Contours) = 1 /\ Qualifies(1)
    /\ found_box /\ best_box = Contours[1].rect

\* C5: a contour whose area is below 10% of the image area is never the
\* selected one, and when some contour has at least 10% of the image area
\* and passes the other three rules, a contour is selected.
C5_AreaFloor ==
    Called =>
        /\ found_box =>
              \E k \in Idx : /\ RankOf(k) = examined
                             /\ best_box = Contours[k].rect
                             /\ QArea(k)
        /\ (\E k \in Idx : Qualifies(k)) => found_box

\* Exactly 10% is selected although a contour one pixel smaller, which
\* passes the other three rules, is in the image.
C5_Witness ==
    /\ Called /\ found_box /\ Len(Contours) = 2
    /\ 10 * Contours[1].area2 = 2 * image.width * image.height
    /\ Contours[2].area2 = Contours[1].area2 - 2
    /\ QQuad(2) /\ QAspect(2) /\ QMargin(2)
    /\ Contours[2].rect # Contours[1].rect
    /\ best_box = Contours[1].rect

\* C6: on a candidate bounding rect of width w and height h the aspect rule
\* never raises, and it passes exactly when h # 0 and 0.5 < w / h < 2.0; so
\* h = 0, w / h = 0.5, w / h = 2.0 and every ratio outside are rejected.
C6_AspectRule ==
    aspect_result # "none" =>
        /\ aspect_result # "raise"
        /\ aspect_result \in {"pass", "reject"}
        /\ aspect_result = "pass" <=>
              /\ cand[2] # 0
              /\ 2 * cand[1] > cand[2]
              /\ cand[1] < 2 * cand[2]

C6_Witness ==
    /\ aspect_result = "reject"
    /\ cand[2] = 0 /\ cand[1] > 0

\* C7: the contour that reaches the margin rule first (the first, in
\* descending order of area, with enough area, 4 vertices and an aspect
\* ratio in range) is selected if and only if x > 5, y > 5, x + w < W - 5
\* and y + h < H - 5.
ReachesMarginRule(k) == QArea(k) /\ QQuad(k) /\ QAspect(k)

C7_MarginRule ==
    Called =>
        \A k \in Idx :
            (/\ ReachesMarginRule(k)
             /\ \A j \in Idx : Before(j, k) => ~ReachesMarginRule(j))
                => ((found_box /\ examined = RankOf(k)
                        /\ best_box = Contours[k].rect)
                    <=> QMargin(k))

\* A rect starting at x = 5 is rejected and the same rect moved to x = 6 is
\* then selected.
C7_Witness ==
    /\ Called /\ found_box /\ examined = 2 /\ Len(Contours) = 2
    /\ \E k \in Idx : \E j \in Idx :
          /\ RankOf(j) = 1 /\ RankOf(k) = 2
          /\ ReachesMarginRule(j)
          /\ Contours[j].rect[1] = 5 /\ Contours[k].rect[1] = 6
          /\ Contours[j].rect[2] = Contours[k].rect[2]
          /\ Contours[j].rect[3] = Contours[k].rect[3]
          /\ Contours[j].rect[4] = Contours[k].rect[4]
          /\ best_box = Contours[k].rect

\* C8: a call with a debug folder writes debug_1_gray, debug_2_blurred,
\* debug_3_canny_edges, debug_4_all_contours in this order, followed by
\* debug_5_best_contour_box exactly when a contour was selected: five
\* writes then, four on the fallback path, none twice.
C8_DebugWriteOrder ==
    (Called /\ debug_folder # None) =>
        /\ Len(written) = (IF found_box THEN 5 ELSE 4)
        /\ written[1] = "debug_1_gray"
        /\ written[2] = "debug_2_blurred"
        /\ written[3] = "debug_3_canny_edges"
        /\ written[4] = "debug_4_all_contours"
        /\ found_box => written[5] = "debug_5_best_contour_box"
        /\ \A i \in DOMAIN written : \A j \in DOMAIN written :
              written[i] = written[j] => i = j

C8_Witness ==
    /\ Called /\ debug_folder # None /\ ~found_box
    /\ Len(written) = 4 /\ Contours # <<>>

\* C9: the debug folder holds exactly the artifacts written by the most
\* recent call that was given the folder, and a call without a folder
\* writes nothing and leaves the folder as it was.
DebugCalls == { i \in DOMAIN returns : returns[i].debug }
LastDebugCall == CHOOSE i \in DebugCalls : \A j \in DebugCalls : j <= i

C9_FolderHoldsLastCall ==
    /\ \A i \in DOMAIN returns : ~returns[i].debug => returns[i].written = <<>>
    /\ IF DebugCalls = {}
       THEN \/ ~dir_exists /\ files = {}
            \/ dir_exists /\ files # {} /\ \A f \in files : f.call = 0
       ELSE /\ dir_exists
            /\ files = { [name |-> returns[LastDebugCall].written[j],
                          call |-> LastDebugCall] :
                         j \in DOMAIN returns[LastDebugCall].written }

C9_Witness ==
    /\ calls = 2 /\ returns[1].debug /\ ~returns[2].debug
    /\ ~found_box /\ Cardinality(files) = 4

\* C10: on the same image the box returned by a call with a debug folder
\* is the box returned by a call without one.
C10_DebugDoesNotChangeBox ==
    \A i \in DOMAIN returns : \A j \in DOMAIN returns :
        returns[i].debug /\ ~returns[j].debug
            => returns[i].box = returns[j].box

C10_Witness ==
    /\ calls = 2 /\ returns[1].debug /\ ~returns[2].debug
    /\ found_box /\ Len(Contours) = 2
    /\ Qualifies(1) /\ Qualifies(2)
    /\ Contours[1].rect # Contours[2].rect

\* C11 as stated: a call given a debug folder whose clearing, creation or
\* writes fail still returns, and returns the box of a call without a
\* debug folder.
C11_FolderFailureNotPropagated ==
    \A i \in DOMAIN returns :
        returns[i].debug =>
            /\ ~returns[i].raised
            /\ \A j \in DOMAIN returns :
                  ~returns[j].debug => returns[i].box = returns[j].box

Reordered(p) == [i \in Idx |-> Contours[p[i]]]
BoxForOrder(p) ==
    FilterContours([image EXCEPT !.contours = Reordered(p)],
                   debug_folder # None).best_box

\* C13 as stated: the returned box is the same for every order of the
\* contours, also when two passing contours have equal area.
C13_AsStated ==
    Called => \A p \in Permutations(Idx) : BoxForOrder(p) = best_box

\* C13, amended: the returned box is the same for every order of the
\* contours provided no two contours that pass all four rules have equal
\* area; of passing contours of equal area the one extracted first ranks
\* first.
NoPassingTie ==
    \A j \in Idx : \A k \in Idx :
        (Qualifies(j) /\ Qualifies(k) /\ j # k)
            => Contours[j].area2 # Contours[k].area2

C13_OrderIrrelevantWithoutTies ==
    (Called /\ NoPassingTie)
        => \A p \in Permutations(Idx) : BoxForOrder(p) = best_box

C13_Witness ==
    /\ Called /\ Len(Contours) = 2 /\ found_box
    /\ Qualifies(1) /\ Qualifies(2)
    /\ Contours[1].area2 < Contours[2].area2
    /\ Contours[1].rect # Contours[2].rect
    /\ \A p \in Permutations(Idx) : BoxForOrder(p) = Contours[2].rect

\* C14: the returned box equals (0, 0, W, H) if and only if no contour
\* passed the rejection chain.
C14_FullBoxIffMiss ==
    Called => (best_box = FullBox <=> \A k \in Idx : ~Qualifies(k))

C14_Witness ==
    /\ Called /\ best_box = FullBox /\ ~found_box
    /\ \E k \in Idx : /\ Contours[k].rect = FullBox
                      /\ QArea(k) /\ QQuad(k) /\ QAspect(k)

\* C15: no call draws on the caller's image; overlays go to copies.
C15_InputImageNotDrawnOn ==
    Called => "image" \notin drawn

C15_Witness ==
    /\ Called /\ debug_folder # None /\ found_box
    /\ Cardinality(drawn) = 2

\* C18: stopping the scan at the first contour below the area floor returns
\* the same box as skipping every contour below the floor and scanning on.
RECURSIVE ScanSkipBelowFloor(_, _, _, _)
ScanSkipBelowFloor(sorted, i, width, height) ==
    IF i > Len(sorted) THEN FullImageBox(width, height)
    ELSE IF /\ ~AreaBelowMin(sorted[i], width, height)
            /\ PassesRules(sorted[i], width, height)
         THEN sorted[i].rect
    ELSE ScanSkipBelowFloor(sorted, i + 1, width, height)

C18_BreakEqualsSkip ==
    Called =>
        best_box = ScanSkipBelowFloor(SortDesc(Contours), 1,
                                      image.width, image.height)

C18_Witness ==
    /\ Called /\ ~found_box /\ examined = 1 /\ Len(Contours) = 2
    /\ \E k \in Idx : /\ RankOf(k) = 1 /\ ~QArea(k)
                      /\ QQuad(k) /\ QAspect(k) /\ QMargin(k)

\* C16: refreshes are serialized.  At most one perform_refresh is ever
\* scheduled, one is scheduled only while is_refreshing is set, and a step
\* taken while a refresh is in flight that is not that refresh's own
\* perform_refresh (a timer tick, a click on Refresh) starts no capture and
\* no detection and changes neither the flag, the opacities nor the
\* rectangle.
C16_OneRefreshInFlight ==
    [][ /\ Len(pending') <= 1
        /\ (pending' # <<>> => is_refreshing')
        /\ (is_refreshing /\ pending' = pending)
              => UNCHANGED <<is_refreshing, rect_opacity, panel_opacity,
                             overlay_rect, image, calls, files, dir_exists>>
      ]_vars

\* A click on Refresh was dropped while the timer's refresh was in flight.
C16_Witness ==
    /\ is_refreshing
    /\ Len(pending) = 1
    /\ pending[1].src = "timer"
    /\ last_trigger = [src |-> "button", accepted |-> FALSE]

\* C17: when a refresh ends with the full-screen fallback box, the overlay
\* has told the user that detection is unreliable.
C17_FallbackIsSignalled ==
    ( /\ call_srcs # <<>>
      /\ ~is_refreshing
      /\ ~raised
      /\ ~found_box
      /\ overlay_rect = FullImageBox(image.width, image.height) )
        => notified

\* C19: a detection call made for a timer tick gets no debug folder and
\* leaves the folder and its files as they were; a detection call made for a
\* click on Refresh gets the folder "screenshot_debug".
C19_DebugOnlyFromButton ==
    [][ calls' # calls =>
          LET src == call_srcs'[Len(call_srcs')] IN
          /\ Len(call_srcs') = Len(call_srcs) + 1
          /\ src = "timer" => /\ debug_folder' = None
                              /\ written' = <<>>
                              /\ files' = files
                              /\ dir_exists' = dir_exists
          /\ src = "button" => debug_folder' = DebugDir
      ]_vars

\* A button refresh wrote its diagnostics and a later timer refresh left
\* them in place.
C19_Witness ==
    /\ call_srcs = <<"button", "timer">>
    /\ returns[1].written # <<>>
    /\ \E f \in files : f.call = 1
    /\ debug_folder = None

\* A rectangle of positive size inside the image.
ValidRect(r, img) ==
    /\ Len(r) = 4
    /\ r[1] >= 0 /\ r[2] >= 0 /\ r[3] > 0 /\ r[4] > 0
    /\ r[1] + r[3] <= img.width
    /\ r[2] + r[4] <= img.height

\* C20: in main, a failed capture ends main with no detection and no
\* overlay, and nothing else does; after a successful capture main can
\* always take its next step until the overlay runs, and the overlay is
\* started on a rectangle of positive size inside the screenshot.  When the
\* folder setup raised, the initial detection was called without a debug
\* folder and wrote nothing; when the initial detection raised, the
\* rectangle is (0, 0, width, height).
C20_MainSurvivesFailures ==
    /\ main_events.capture = "failed"
          => main_pc = "returned" /\ calls = 0 /\ app_state = "none"
    /\ main_pc = "returned" => main_events.capture = "failed"
    /\ (main_events.capture = "ok" /\ main_pc # "overlay") => ENABLED NextMain
    /\ (main_events.setup = "failed" /\ main_events.detect # "none")
          => debug_folder = None /\ written = <<>> /\ main_events.detect = "ok"
    /\ main_events.detect = "failed"
          => initial_rect = <<0, 0, image.width, image.height>>
    /\ main_events.detect # "none" => ValidRect(initial_rect, image)
    /\ main_pc = "overlay"
          => /\ app_state = "running"
             /\ overlay_rect = initial_rect

\* The overlay runs although the folder setup raised.
C20_Witness ==
    /\ main_pc = "overlay"
    /\ main_events.setup = "failed"
    /\ found_box
    /\ overlay_rect = best_box

\* The overlay runs on the full-screen rectangle although the initial
\* detection raised.
C20_WitnessDetectRaised ==
    /\ main_pc = "overlay"
    /\ main_events.detect = "failed"
    /\ raised

\* C21: while the application runs, every accepted refresh completes:
\* once is_refreshing is set, it is eventually cleared with both windows
\* opaque again, unless the user exits first.
C21_RefreshCompletes ==
    (is_refreshing /\ app_state = "running")
        ~> \/ ( /\ ~is_refreshing
                /\ rect_opacity = Opaque
                /\ panel_opacity = Opaque )
           \/ app_state = "quit"

\* The order of one refresh cycle.
RefreshOrder == <<"set_transparent">> \o RefreshSteps

IsPrefix(p, q) == Len(p) <= Len(q) /\ SubSeq(q, 1, Len(p)) = p

\* C22: a refresh cycle runs in the order set-transparent, capture,
\* detect, restore opacity, update rectangle, clear is_refreshing; the
\* capture is taken in a state where the rectangle and the control panel
\* both have opacity 0; and between set-transparent and the capture no
\* step (timer tick, click on Refresh) changes the opacities, the rectangle
\* or the cycle.
C22_CaptureWhileTransparent ==
    [][ /\ IsPrefix(events', RefreshOrder)
        /\ (events' # events /\ Len(events') >= 2 /\ events'[2] = "capture")
              => /\ events = <<"set_transparent">>
                 /\ rect_opacity = Transparent
                 /\ panel_opacity = Transparent
        /\ (pending # <<>> /\ pending' = pending)
              => UNCHANGED <<rect_opacity, panel_opacity, overlay_rect,
                             events>>
      ]_vars

\* A whole cycle has run, and a trigger was dropped between its
\* set-transparent and its capture.
C22_Witness ==
    /\ events = RefreshOrder
    /\ ~is_refreshing
    /\ rect_opacity = Opaque /\ panel_opacity = Opaque
    /\ last_trigger.src # "none" /\ ~last_trigger.accepted

\* C23: when main has saved initial_screenshot.png into the debug folder
\* and the initial detection has run with that folder, the folder still
\* holds initial_screenshot.png.
C23_InitialScreenshotKept ==
    (main_events.setup = "ok" /\ main_events.detect = "ok")
        => \E f \in files : f.name = "initial_screenshot"

====
